---- MODULE Spec2Model ----
(***************************************************************************)
(* Model of scrapper.py: the Hacker News front-page scraper.               *)
(*                                                                         *)
(* Text is a sequence of one-character strings, so that slicing            *)
(* (text[:-1]), startswith and concatenation are computed as Python        *)
(* computes them.  A Python dict is a function whose domain is its key     *)
(* set; the empty dict is <<>>.  A call that can raise returns an outcome  *)
(* record: Return(v) or Raise(e).                                          *)
(***************************************************************************)
EXTENDS Integers, Sequences, FiniteSets, TLC

VARIABLES
    pc,             \* position of main(): start, prompt, locate, comments, write, done, crashed
    listing_resp,   \* what the network answered to get_html_content(url) in get_news
    listing_gets,   \* number of GETs get_news issued for the listing page
    news_result,    \* main: news_result
    want_comments,  \* main: input().lower() == "y"
    locator_resp,   \* what the network answered to requests.get(url) in get_comment_links
    comment_links,  \* rank_news_comments: comment_links
    comment_list,   \* rank_news_comments: comment_list, as built so far
    comment_dict,   \* main: comment_dict (Unset before the prompt is answered)
    thread_log,     \* rank -> [url, resp]: the GET get_comments issued for that rank and its answer
    output,         \* the value dumped to output.json
    fatal,          \* the exception that left main(), "-" when none did
    row,            \* the structural row under decoding (row-level specification)
    parsed,         \* parse_news_row(row)
    news_data,      \* get_news: news_data after the loop body ran on row
    rpc             \* position of the row-level specification: fresh, parsed, collected

vars == << pc, listing_resp, listing_gets, news_result, want_comments, locator_resp,
           comment_links, comment_list, comment_dict, thread_log, output, fatal,
           row, parsed, news_data, rpc >>

mainVars == << pc, listing_resp, listing_gets, news_result, want_comments, locator_resp,
               comment_links, comment_list, comment_dict, thread_log, output, fatal >>

rowVars == << row, parsed, news_data, rpc >>

----------------------------------------------------------------------------
(* Bounds of the model *)

MaxRankLen == 3     \* longest first-cell text
MaxCells == 3       \* most <td> cells in a row
MaxRows == 2        \* most <tr> rows in the listing table
MaxTables == 3      \* most <table> elements in the listing page
MaxSublines == 2    \* most span.subline elements in the page the locator fetches
MaxComments == 1    \* most span.commtext.c00 elements in a thread page

----------------------------------------------------------------------------
(* Python values and outcomes *)

\* a value that may be None: None, or Some(v)
None == [none |-> TRUE, val |-> << >>]

Some(v) == [none |-> FALSE, val |-> v]

Return(v) == [kind |-> "return", val |-> v, exc |-> "-"]

Raise(e) == [kind |-> "raise", val |-> None, exc |-> e]

EmptyDict == << >>

\* d[k] = v on a dict
DictSet(d, k, v) == [x \in (DOMAIN d) \cup {k} |-> IF x = k THEN v ELSE d[x]]

\* d.get(k, default)
DictGet(d, k, default) == IF k \in DOMAIN d THEN d[k] ELSE default

----------------------------------------------------------------------------
(* Text *)

Str_https == << "h", "t", "t", "p", "s", ":", "/", "/" >>

Str_http == << "h", "t", "t", "p", ":", "/", "/" >>

Str_host == << "n", "e", "w", "s", ".", "y", "c", "o", "m", "b", "i", "n", "a", "t", "o", "r",
               ".", "c", "o", "m", "/" >>

\* "https://news.ycombinator.com/", the literal head of the f-strings
BaseUrl == Str_https \o Str_host

\* "item?id="
ItemPrefix == << "i", "t", "e", "m", "?", "i", "d", "=" >>

\* s.startswith(p)
StartsWith(s, p) ==
    /\ Len(p) <= Len(s)
    /\ \A i \in 1..Len(p) : s[i] = p[i]

\* s[:-1]: everything but the last character; "" stays ""
DropLast(s) == SubSeq(s, 1, Len(s) - 1)

Digits == {"0", "1", "2", "3", "4", "5", "6", "7", "8", "9"}

DigitVal(c) ==
    CASE c = "0" -> 0 [] c = "1" -> 1 [] c = "2" -> 2 [] c = "3" -> 3 [] c = "4" -> 4
      [] c = "5" -> 5 [] c = "6" -> 6 [] c = "7" -> 7 [] c = "8" -> 8 [] c = "9" -> 9

RECURSIVE DecimalValue(_)
DecimalValue(s) ==
    IF s = << >> THEN 0
    ELSE 10 * DecimalValue(DropLast(s)) + DigitVal(s[Len(s)])

\* int(s) on text made of digits, "." and letters: a non-empty run of digits
\* converts, anything else raises ValueError
PyInt(s) ==
    IF s # << >> /\ \A i \in 1..Len(s) : s[i] \in Digits
    THEN Return(DecimalValue(s))
    ELSE Raise("ValueError")

----------------------------------------------------------------------------
(* Markup: what BeautifulSoup hands to the code *)

\* a class attribute that the tag lacks
NoClass == [present |-> FALSE, val |-> {}]

\* any other attribute that the tag lacks
NoAttr == [present |-> FALSE, val |-> << >>]

Attr(v) == [present |-> TRUE, val |-> v]

\* an <a>: its text and its href attribute
Anchor(text, href) == [text |-> text, href |-> href]

\* a <td>: its text and the <a> elements inside it, in document order
Cell(text, anchors) == [text |-> text, anchors |-> anchors]

\* a <tr>: its class attribute (absent, or the set of class names) and its <td> cells
Row(class, cells) == [class |-> class, cells |-> cells]

----------------------------------------------------------------------------
(* parse_news_row *)

NormalizeLink_double(link) == BaseUrl \o link

NormalizeLink_never(link) == link

\* lines 61-62: the rewrite of a thread-relative href
NormalizeLink(link) ==
    IF StartsWith(link, ItemPrefix) THEN BaseUrl \o link ELSE link

\* lines 55-63, the body of the try: the value returned or the exception raised
ParseRowBody(r) ==
    IF ~r.class.present THEN Raise("KeyError")
    ELSE IF "athing" \notin r.class.val THEN Return(None)
    ELSE LET columns == r.cells IN
      IF Len(columns) < 1 THEN Raise("IndexError")
      ELSE LET rank == PyInt(DropLast(columns[1].text)) IN
        IF rank.kind = "raise" THEN rank
        ELSE IF Len(columns) < 3 THEN Raise("IndexError")
        ELSE LET found == columns[3].anchors IN
          IF found = << >> THEN Raise("AttributeError")
          ELSE LET news_title == found[1] IN
            IF ~news_title.href.present THEN Raise("KeyError")
            ELSE Return(Some([rank |-> rank.val,
                              title |-> news_title.text,
                              link |-> NormalizeLink(news_title.href.val)]))

\* lines 54-66: except Exception turns every exception into None
parse_news_row(r) ==
    LET o == ParseRowBody(r) IN
    IF o.kind = "raise" THEN Return(None) ELSE o

----------------------------------------------------------------------------
(* get_news *)

\* lines 146-151: the loop body on one row; news is the outcome so far.
\* None is falsy and a dict of three keys is truthy
NewsStep(news, r) ==
    IF news.kind = "raise" THEN news
    ELSE LET o == parse_news_row(r) IN
      IF o.kind = "raise" THEN o
      ELSE IF o.val.none THEN news
      ELSE LET parsed_news == o.val.val IN
        Return(DictSet(news.val, parsed_news.rank,
                       [title |-> parsed_news.title, link |-> parsed_news.link]))

RECURSIVE NewsLoop(_, _)
NewsLoop(news, rows) ==
    IF rows = << >> THEN news
    ELSE NewsLoop(NewsStep(news, Head(rows)), Tail(rows))

\* what one GET met: no answer at all (DNS, connection, timeout), or an
\* HTTP answer with a status and a parsed body
Resp(reached, status, body) == [reached |-> reached, status |-> status, body |-> body]

NoBody == [tables |-> << >>]

get_html_content_nostatus(net) ==
    LET response == net[1] IN
    IF ~response.reached THEN [html |-> None, gets |-> 1]
    ELSE [html |-> Some(response.body), gets |-> 1]

\* lines 16-22: one GET; net is what the server answers to successive GETs.
\* requests.get raises on a transport failure and raise_for_status on a
\* 4xx/5xx status, both RequestException: caught, None returned
get_html_content(net) ==
    LET response == net[1] IN
    IF ~response.reached THEN [html |-> None, gets |-> 1]
    ELSE IF response.status >= 400 /\ response.status < 600 THEN [html |-> None, gets |-> 1]
    ELSE [html |-> Some(response.body), gets |-> 1]

\* lines 35-41: BeautifulSoup(None, ...) raises TypeError, which the except
\* IndexError does not catch; fewer than three tables is the IndexError
extract_news_rows(html_content) ==
    IF html_content.none THEN Raise("TypeError")
    ELSE LET tables == html_content.val.tables IN
      IF Len(tables) < 3 THEN Return(<< >>) ELSE Return(tables[3])

\* lines 143-155: except Exception turns any exception into {}
get_news(net) ==
    LET fetched == get_html_content(net)
        rows == extract_news_rows(fetched.html)
        news == IF rows.kind = "raise" THEN rows ELSE NewsLoop(Return(EmptyDict), rows.val)
    IN [out |-> IF news.kind = "raise" THEN Return(EmptyDict) ELSE news,
        gets |-> fetched.gets]

----------------------------------------------------------------------------
(* get_comment_links *)

SublineLink_second(line) ==
    IF Len(line) < 2 THEN Raise("IndexError")
    ELSE IF ~line[2].href.present THEN Raise("KeyError")
    ELSE Return(BaseUrl \o line[2].href.val)

\* lines 86-87: line.find_all("a")[2]["href"] behind the site prefix
SublineLink(line) ==
    IF Len(line) < 3 THEN Raise("IndexError")
    ELSE IF ~line[3].href.present THEN Raise("KeyError")
    ELSE Return(BaseUrl \o line[3].href.val)

\* lines 84-89: the loop over enumerate(comment_link_lines, start=rank);
\* IndexError skips the subline, any other exception leaves the loop
RECURSIVE LinksLoop(_, _, _)
LinksLoop(links, lines, rank) ==
    IF lines = << >> THEN Return(links)
    ELSE LET o == SublineLink(Head(lines)) IN
      IF o.kind = "return" THEN LinksLoop(DictSet(links, rank, o.val), Tail(lines), rank + 1)
      ELSE IF o.exc = "IndexError" THEN LinksLoop(links, Tail(lines), rank + 1)
      ELSE o

\* the loop with the position advanced only by the sublines that carry a link
RECURSIVE LinksLoopShift(_, _, _)
LinksLoopShift(links, lines, rank) ==
    IF lines = << >> THEN Return(links)
    ELSE LET o == SublineLink(Head(lines)) IN
      IF o.kind = "return" THEN LinksLoopShift(DictSet(links, rank, o.val), Tail(lines), rank + 1)
      ELSE IF o.exc = "IndexError" THEN LinksLoopShift(links, Tail(lines), rank)
      ELSE o

get_comment_links_shift(response) ==
    IF ~response.reached THEN Return(EmptyDict)
    ELSE LinksLoopShift(EmptyDict, response.body.sublines, 1)

\* lines 79-93: requests.get raising RequestException gives {}; the status is
\* not looked at; an exception of the loop that is not an IndexError is not a
\* RequestException either and leaves the function
get_comment_links(response) ==
    IF ~response.reached THEN Return(EmptyDict)
    ELSE LinksLoop(EmptyDict, response.body.sublines, 1)

----------------------------------------------------------------------------
(* get_comments *)

get_comments_narrow(response) ==
    IF ~response.reached THEN Return(<< >>)
    ELSE IF ~response.body.comment_tree.present THEN Raise("AttributeError")
    ELSE Return(response.body.comment_tree.val)

\* lines 106-115: soup.find of an absent table gives None and None.find_all
\* raises AttributeError; except Exception turns every failure into []
get_comments(response) ==
    IF ~response.reached THEN Return(<< >>)
    ELSE IF ~response.body.comment_tree.present THEN Return(<< >>)
    ELSE Return(response.body.comment_tree.val)

\* line 127: comment_links.items() yields the ranks in insertion order, which
\* get_comment_links makes ascending; the next one rank_news_comments visits
NextRank(links, done) ==
    CHOOSE r \in (DOMAIN links) \ (DOMAIN done) :
        \A q \in (DOMAIN links) \ (DOMAIN done) : r <= q

----------------------------------------------------------------------------
(* main *)

Unset == [unset |-> TRUE]

\* input().lower() on the answers the model types
Lower(answer) == IF answer = "Y" THEN "y" ELSE answer

\* lines 175-182: scrap_dict
Aggregate(news, comments) ==
    [rank \in DOMAIN news |->
        [title |-> news[rank].title, link |-> news[rank].link,
         comments |-> DictGet(comments, rank, << >>)]]

Report_truthy(news, comments) ==
    IF ~comments.none /\ comments.val # EmptyDict THEN Aggregate(news, comments.val) ELSE news

\* lines 174-188: the value json.dump writes to output.json
Report(news, comments) ==
    IF ~comments.none THEN Aggregate(news, comments.val) ELSE news

----------------------------------------------------------------------------
(* Inputs: the rows, pages and answers the model draws from *)

Str_item1 == ItemPrefix \o << "1" >>

Str_item2 == ItemPrefix \o << "2" >>

Str_external == Str_https \o << "e", ".", "x", "/", "b" >>

Str_from == << "f", "r", "o", "m", "?", "s", "i", "t", "e", "=", "e" >>

\* hrefs of a story anchor: thread-relative, the bare prefix, one character
\* short of the prefix, the prefix not at the start, absolute (https, http,
\* the site's own), another relative form, empty
Hrefs ==
    { Str_item1,
      ItemPrefix,
      SubSeq(ItemPrefix, 1, Len(ItemPrefix) - 1),
      << "x" >> \o Str_item1,
      Str_external,
      Str_http \o << "e", ".", "x" >>,
      BaseUrl \o Str_item1,
      Str_from,
      << >> }

RankChars == {"1", "2", ".", "x"}

\* every first-cell text of at most MaxRankLen characters
RankTexts == UNION { [1..k -> RankChars] : k \in 0..MaxRankLen }

ClassOpts == { NoClass, Attr({"spacer"}), Attr({"athing"}), Attr({"athing", "submission"}) }

\* what the third cell can hold: no anchor, an anchor without href, an anchor with one
AnchorOpts ==
    { << >>, << Anchor(<< "A" >>, NoAttr) >> }
      \cup { << Anchor(<< "A" >>, Attr(h)) >> : h \in Hrefs }

\* a row of n cells: the text in the first, the anchors in the third
MkRow(class, n, text, anchors) ==
    Row(class, [i \in 1..n |->
                  IF i = 1 THEN Cell(text, << >>)
                  ELSE IF i = 3 THEN Cell(<< >>, anchors)
                  ELSE Cell(<< >>, << >>)])

Rows ==
    { MkRow(c, n, t, a) : c \in ClassOpts, n \in 0..MaxCells, t \in RankTexts, a \in AnchorOpts }

StoryRow(rank, title, href) ==
    MkRow(Attr({"athing", "submission"}), 3, rank, << Anchor(title, Attr(href)) >>)

\* the rows of the listing pages main() meets: three stories (thread-relative,
\* absolute and otherwise relative link), a second story numbered 2, and a
\* spacer row
MainRows ==
    { StoryRow(<< "1", "." >>, << "A" >>, Str_item1),
      StoryRow(<< "2", "." >>, << "B" >>, Str_external),
      StoryRow(<< "2", "." >>, << "D" >>, Str_item2),
      StoryRow(<< "3", "." >>, << "C" >>, Str_from),
      MkRow(Attr({"spacer"}), 0, << >>, << >>) }

SeqsUpTo(S, n) == UNION { [1..k -> S] : k \in 0..n }

\* a listing page of n tables; the third one, when there, holds the rows
ListingBody(n, rows) == [tables |-> [i \in 1..n |-> IF i = 3 THEN rows ELSE << >>]]

ListingBodies ==
    { ListingBody(n, rows) : n \in 0..MaxTables, rows \in SeqsUpTo(MainRows, MaxRows) }

ListingResps ==
    { Resp(FALSE, 0, NoBody) }
      \cup { Resp(TRUE, st, b) : st \in {200, 404, 503}, b \in ListingBodies }

\* what a second GET of the listing would be answered
RetryResps ==
    { Resp(FALSE, 0, NoBody),
      Resp(TRUE, 200, ListingBody(3, << StoryRow(<< "1", "." >>, << "A" >>, Str_item1) >>)) }

\* a subline of n anchors; the third one, when there, carries href
MkSubline(n, href) ==
    [i \in 1..n |-> IF i = 3 THEN Anchor(<< "c" >>, href)
                    ELSE Anchor(<< "u" >>, Attr(<< "u" >>))]

SublineOpts ==
    { MkSubline(n, h) : n \in {0, 2, 3, 4}, h \in {NoAttr, Attr(Str_item1), Attr(Str_item2)} }

LocatorResps ==
    { Resp(FALSE, 0, [sublines |-> << >>]) }
      \cup { Resp(TRUE, st, [sublines |-> s]) :
               st \in {200, 404}, s \in SeqsUpTo(SublineOpts, MaxSublines) }

\* the text of the comments the thread at url shows: "c" and the url's last character
ThreadText(url) == << "c", url[Len(url)] >>

\* the answers to a GET of the thread at url: no answer, a page without the
\* comment-tree table, a page with the table and 0..MaxComments root comments
ThreadResps(url) ==
    { Resp(FALSE, 0, [comment_tree |-> NoAttr]),
      Resp(TRUE, 200, [comment_tree |-> NoAttr]),
      Resp(TRUE, 404, [comment_tree |-> NoAttr]) }
      \cup { Resp(TRUE, 200, [comment_tree |-> Attr([i \in 1..k |-> ThreadText(url)])]) :
               k \in 0..MaxComments }

Answers == {"y", "Y", "n", ""}

----------------------------------------------------------------------------
(* main(), step by step *)

InitMain ==
    /\ listing_resp = Unset
    /\ listing_gets = 0
    /\ news_result = Unset
    /\ want_comments = FALSE
    /\ locator_resp = Unset
    /\ comment_links = EmptyDict
    /\ comment_list = EmptyDict
    /\ comment_dict = Unset
    /\ thread_log = EmptyDict
    /\ output = Unset
    /\ fatal = "-"

InitRowIdle ==
    /\ row = MkRow(NoClass, 0, << >>, << >>)
    /\ parsed = Unset
    /\ news_data = Unset
    /\ rpc = "off"

Init ==
    /\ pc = "start"
    /\ InitMain
    /\ InitRowIdle

\* line 165: news_result = get_news(url)
GetNews ==
    /\ pc = "start"
    /\ \E first \in ListingResps, second \in RetryResps :
         LET got == get_news(<< first, second >>) IN
         /\ listing_resp' = [reached |-> first.reached, status |-> first.status]
         /\ listing_gets' = got.gets
         /\ IF got.out.kind = "raise"
            THEN /\ pc' = "crashed"
                 /\ fatal' = got.out.exc
                 /\ news_result' = news_result
            ELSE /\ pc' = "prompt"
                 /\ fatal' = fatal
                 /\ news_result' = got.out.val
    /\ UNCHANGED << want_comments, locator_resp, comment_links, comment_list, comment_dict,
                    thread_log, output >>
    /\ UNCHANGED rowVars

\* lines 167-172: the answer to the prompt; "n" leaves comment_dict None
ReadInput ==
    /\ pc = "prompt"
    /\ \E answer \in Answers :
         /\ want_comments' = (Lower(answer) = "y")
         /\ IF Lower(answer) = "y"
            THEN /\ pc' = "locate"
                 /\ comment_dict' = comment_dict
            ELSE /\ pc' = "write"
                 /\ comment_dict' = None
    /\ UNCHANGED << listing_resp, listing_gets, news_result, locator_resp, comment_links,
                    comment_list, thread_log, output, fatal >>
    /\ UNCHANGED rowVars

\* line 125-126: comment_links = get_comment_links(url); comment_list = {}.
\* With no link the loop of line 127 runs zero times and line 130 returns {}
GetCommentLinks ==
    /\ pc = "locate"
    /\ \E response \in LocatorResps :
         LET got == get_comment_links(response) IN
         /\ locator_resp' = response
         /\ IF got.kind = "raise"
            THEN /\ pc' = "crashed"
                 /\ fatal' = got.exc
                 /\ UNCHANGED << comment_links, comment_dict >>
            ELSE /\ comment_links' = got.val
                 /\ fatal' = fatal
                 /\ IF got.val = EmptyDict
                    THEN pc' = "write" /\ comment_dict' = Some(EmptyDict)
                    ELSE pc' = "comments" /\ comment_dict' = comment_dict
    /\ UNCHANGED << listing_resp, listing_gets, news_result, want_comments, comment_list,
                    thread_log, output >>
    /\ UNCHANGED rowVars

\* lines 127-130: one turn of the loop of rank_news_comments; after the last
\* link, the dict is returned into comment_dict (line 170)
GetCommentsStep ==
    /\ pc = "comments"
    /\ LET rank == NextRank(comment_links, comment_list)
           link == comment_links[rank]
       IN \E response \in ThreadResps(link) :
            LET comments == get_comments(response) IN
            /\ thread_log' = DictSet(thread_log, rank, [url |-> link, resp |-> response])
            /\ IF comments.kind = "raise"
               THEN /\ pc' = "crashed"
                    /\ fatal' = comments.exc
                    /\ UNCHANGED << comment_list, comment_dict >>
               ELSE /\ comment_list' = DictSet(comment_list, rank, comments.val)
                    /\ fatal' = fatal
                    /\ IF DOMAIN comment_list' = DOMAIN comment_links
                       THEN pc' = "write" /\ comment_dict' = Some(comment_list')
                       ELSE pc' = "comments" /\ comment_dict' = comment_dict
    /\ UNCHANGED << listing_resp, listing_gets, news_result, want_comments, locator_resp,
                    comment_links, output >>
    /\ UNCHANGED rowVars

\* lines 174-190: output.json is written
WriteOutput ==
    /\ pc = "write"
    /\ output' = Report(news_result, comment_dict)
    /\ pc' = "done"
    /\ UNCHANGED << listing_resp, listing_gets, news_result, want_comments, locator_resp,
                    comment_links, comment_list, comment_dict, thread_log, fatal >>
    /\ UNCHANGED rowVars

Next ==
    \/ GetNews
    \/ ReadInput
    \/ GetCommentLinks
    \/ GetCommentsStep
    \/ WriteOutput

Spec == Init /\ [][Next]_vars

----------------------------------------------------------------------------
(* parse_news_row and the loop body of get_news on every row of Rows *)

InitRow ==
    /\ pc = "off"
    /\ InitMain
    /\ row \in Rows
    /\ parsed = Unset
    /\ news_data = Unset
    /\ rpc = "fresh"

\* line 146: parsed_news = parse_news_row(row)
DecodeRow ==
    /\ rpc = "fresh"
    /\ parsed' = parse_news_row(row)
    /\ rpc' = "parsed"
    /\ UNCHANGED << row, news_data >>
    /\ UNCHANGED mainVars

\* lines 144-151: news_data = {} and the loop body on the row
CollectRow ==
    /\ rpc = "parsed"
    /\ news_data' = NewsStep(Return(EmptyDict), row)
    /\ rpc' = "collected"
    /\ UNCHANGED << row, parsed >>
    /\ UNCHANGED mainVars

NextRow ==
    \/ DecodeRow
    \/ CollectRow

SpecRow == InitRow /\ [][NextRow]_vars

----------------------------------------------------------------------------
(* Vocabulary of the properties *)

\* s is a decimal numeral
IsNumeral(s) == s # << >> /\ \A i \in 1..Len(s) : s[i] \in Digits

EndsWithPeriod(s) == s # << >> /\ s[Len(s)] = "."

\* s with its trailing period, if it has one, removed
StripPeriod(s) == IF EndsWithPeriod(s) THEN SubSeq(s, 1, Len(s) - 1) ELSE s

\* rank text: a decimal numeral with or without one trailing "."
WellFormedRank(s) == IsNumeral(StripPeriod(s))

HasMarker(r) == r.class.present /\ "athing" \in r.class.val

HasAnchor(r) == Len(r.cells) >= 3 /\ r.cells[3].anchors # << >>

HasHref(r) == HasAnchor(r) /\ r.cells[3].anchors[1].href.present

\* a valid story row
ValidRow(r) == HasMarker(r) /\ HasHref(r) /\ WellFormedRank(r.cells[1].text)

RowHref(r) == r.cells[3].anchors[1].href.val

BeginsWithItem(h) ==
    Len(h) >= Len(ItemPrefix) /\ SubSeq(h, 1, Len(ItemPrefix)) = ItemPrefix

IsAbsolute(url) == StartsWith(url, Str_https) \/ StartsWith(url, Str_http)

Decoded == rpc # "fresh" /\ parsed.kind = "return" /\ ~parsed.val.none

Record == parsed.val.val

\* the listing fetch failed: no answer, or a 4xx/5xx answer
ListingFailed ==
    ~listing_resp.reached \/ (listing_resp.status >= 400 /\ listing_resp.status < 600)

Sublines == locator_resp.body.sublines

\* the thread fetch failed, or the page has no comment-tree table
ThreadFailed(response) == ~response.reached \/ ~response.body.comment_tree.present

\* the root comments a thread page shows
ThreadComments(response) ==
    IF ThreadFailed(response) THEN << >> ELSE response.body.comment_tree.val

Finished == pc = "done" /\ want_comments

----------------------------------------------------------------------------
(* Properties *)

\* C1: whatever the outcomes of the steps of main, no exception leaves main:
\* the run never ends in a crash before output.json is written.
C1_NoFatalError == pc # "crashed"

\* C2: for every valid story row (marker, anchor in the third cell, first-cell
\* text a numeral with or without one trailing "."), parse_news_row returns a
\* record whose rank is the value of that text with the trailing period removed.
C2_RankIsCellValue ==
    (rpc # "fresh" /\ ValidRow(row)) =>
        /\ parsed.kind = "return"
        /\ ~parsed.val.none
        /\ Record.rank = DecimalValue(StripPeriod(row.cells[1].text))

\* C3: the link of a decoded row is the base URL followed once by the href
\* when the href begins with "item?id=", and the href itself otherwise.
C3_LinkNormalization ==
    Decoded =>
        IF BeginsWithItem(RowHref(row))
        THEN /\ Record.link = BaseUrl \o RowHref(row)
             /\ Len(Record.link) = Len(BaseUrl) + Len(RowHref(row))
        ELSE Record.link = RowHref(row)

C3_Witness ==
    /\ Decoded
    /\ RowHref(row) = Str_item1
    /\ Record.link = BaseUrl \o Str_item1

\* C4, as claimed: every record parse_news_row returns, and every entry
\* get_news adds, has an absolute link, whatever the href of the anchor.
C4_LinkAlwaysAbsolute ==
    /\ Decoded => IsAbsolute(Record.link)
    /\ (rpc = "collected" /\ news_data.kind = "return") =>
          \A r \in DOMAIN news_data.val : IsAbsolute(news_data.val[r].link)

\* C4, amended: the link of a record, and of the entry get_news adds for it,
\* is absolute when the href begins with "item?id=" or is absolute already;
\* any other href comes out unchanged, so a relative one stays relative.
C4_LinkAbsoluteWhenItemOrAbsolute ==
    Decoded =>
        LET h == RowHref(row)
            absolute == IF BeginsWithItem(h) \/ IsAbsolute(h)
                        THEN IsAbsolute(Record.link)
                        ELSE Record.link = h /\ ~IsAbsolute(Record.link)
        IN /\ absolute
           /\ rpc = "collected" =>
                /\ news_data.kind = "return"
                /\ DOMAIN news_data.val = {Record.rank}
                /\ news_data.val[Record.rank].link = Record.link

C4_Witness ==
    /\ rpc = "collected"
    /\ Decoded
    /\ RowHref(row) = Str_from
    /\ news_data.val[Record.rank].link = Str_from

\* C5: with comments requested, the report has exactly the ranks of the story
\* mapping; each entry has the story's title and link and, as comments, the
\* comment mapping's list for the rank, or [] when the mapping lacks the rank.
C5_Aggregation ==
    Finished =>
        /\ DOMAIN output = DOMAIN news_result
        /\ \A r \in DOMAIN output :
             /\ DOMAIN output[r] = {"title", "link", "comments"}
             /\ output[r].title = news_result[r].title
             /\ output[r].link = news_result[r].link
             /\ output[r].comments =
                  IF r \in DOMAIN comment_dict.val THEN comment_dict.val[r] ELSE << >>

C5_Witness ==
    /\ Finished
    /\ \E r \in DOMAIN output : r \notin DOMAIN comment_dict.val
    /\ \E r \in DOMAIN output : r \in DOMAIN comment_dict.val /\ comment_dict.val[r] # << >>
    /\ \E r \in DOMAIN comment_dict.val : r \notin DOMAIN output

\* C6: the keys get_comment_links returns are the 1-based positions of the
\* sublines with at least three anchors; the report of a finished run shows
\* [] for a story whose rank is the position of a subline with fewer.
C6_LinksKeyedByPosition ==
    (pc \in {"comments", "write", "done"} /\ want_comments /\ locator_resp.reached) =>
        /\ DOMAIN comment_links = { i \in 1..Len(Sublines) : Len(Sublines[i]) >= 3 }
        /\ pc = "done" =>
             \A r \in DOMAIN output :
                (r <= Len(Sublines) /\ Len(Sublines[r]) < 3) => output[r].comments = << >>

C6_Witness ==
    /\ Finished
    /\ locator_resp.reached
    /\ Len(Sublines) = 2
    /\ Len(Sublines[1]) < 3
    /\ DOMAIN comment_links = {2}
    /\ 1 \in DOMAIN output

\* C7: a thread whose fetch failed, or whose page has no comment-tree table,
\* gets [] under its rank without a crash; the threads after it are fetched
\* all the same, and the run goes on to write the output with [] for it.
C7_FailedThreadIsEmpty ==
    \A r \in DOMAIN thread_log :
        ThreadFailed(thread_log[r].resp) =>
            /\ pc \in {"comments", "write", "done"}
            /\ r \in DOMAIN comment_list
            /\ comment_list[r] = << >>
            /\ pc = "comments" => DOMAIN comment_list # DOMAIN comment_links
            /\ pc \in {"write", "done"} => DOMAIN thread_log = DOMAIN comment_links
            /\ pc = "done" =>
                 \A q \in DOMAIN output :
                    /\ q = r => output[q].comments = << >>
                    /\ q \in DOMAIN thread_log =>
                         output[q].comments = ThreadComments(thread_log[q].resp)

C7_Witness ==
    /\ pc = "done"
    /\ DOMAIN thread_log = {1, 2}
    /\ ~thread_log[1].resp.reached
    /\ DOMAIN output = {1, 2}
    /\ output[1].comments = << >>
    /\ output[2].comments # << >>

\* C8: when the fetch of the listing fails (no answer, or a 4xx/5xx status),
\* get_news returns the empty mapping after that one GET, and no exception
\* leaves it.
C8_FailedListingIsEmpty ==
    (pc # "start" /\ ListingFailed) =>
        /\ pc = "crashed" => want_comments
        /\ listing_gets = 1
        /\ news_result = EmptyDict

C8_Witness ==
    /\ pc = "done"
    /\ listing_resp.reached
    /\ listing_resp.status = 404
    /\ output = EmptyDict

\* C9: parse_news_row never raises; it returns nothing for a row without the
\* marker or the class attribute, a row missing a cell or the anchor (or its
\* href), or a row whose rank text is malformed (neither a numeral nor a
\* numeral with one trailing "."), and a record with rank, title and link for
\* a row with none of these defects whose rank text is a numeral and a ".";
\* no record is partial, and get_news adds no entry for a row decoded to nothing.
C9_NothingOrCompleteRecord ==
    rpc # "fresh" =>
        /\ parsed.kind = "return"
        /\ ~ValidRow(row) => parsed.val.none
        /\ (ValidRow(row) /\ EndsWithPeriod(row.cells[1].text)) => ~parsed.val.none
        /\ ~parsed.val.none => DOMAIN Record = {"rank", "title", "link"}
        /\ rpc = "collected" =>
             /\ news_data.kind = "return"
             /\ parsed.val.none => news_data.val = EmptyDict

\* C10: in a finished run with comments, the comments of the story of rank r
\* are those of the page fetched from the link of the r-th subline of the page
\* the locator fetched (third anchor, behind the site prefix), whatever ranks
\* the listing showed; [] when that subline is missing or carries no link.
C10_CommentsFollowSublinePosition ==
    Finished =>
        \A r \in DOMAIN output :
            IF r <= Len(Sublines) /\ Len(Sublines[r]) >= 3
            THEN /\ r \in DOMAIN thread_log
                 /\ thread_log[r].url = BaseUrl \o Sublines[r][3].href.val
                 /\ output[r].comments = ThreadComments(thread_log[r].resp)
            ELSE output[r].comments = << >>

C10_Witness ==
    /\ Finished
    /\ DOMAIN output = {2}
    /\ Len(Sublines) = 2
    /\ Len(Sublines[1]) >= 3
    /\ Len(Sublines[2]) >= 3
    /\ Sublines[1][3].href.val # Sublines[2][3].href.val
    /\ thread_log[2].url = BaseUrl \o Sublines[2][3].href.val
    /\ output[2].comments = << ThreadText(thread_log[2].url) >>

====
